---- MODULE Spec2Model ----
(***************************************************************************)
(* State-machine model of the AI-Sphere client:                            *)
(*   - the presence store (src/app/store/usePresenceStore.ts): module      *)
(*     state, zustand store fields, timers, real-time channels and the     *)
(*     suspended async continuations of connect() and of the subscribe     *)
(*     callback;                                                           *)
(*   - the presence sync handler as a pure function of the snapshot;       *)
(*   - the recording controller (src/app/components/MicrophoneManager.tsx).*)
(* One step of the model is one run-to-completion piece of JavaScript: an  *)
(* event handler, a timer callback, or the part of an async function       *)
(* between two awaits.                                                     *)
(***************************************************************************)
EXTENDS Integers, Sequences, FiniteSets, TLC

\* ------------------------------------------------------------------ bounds
\* Channel objects that can exist at once (slots are reused once a removed
\* channel has no callback or reference left).
MaxChannels == 2
\* Cap on every population of un-cancellable timers / suspended calls.
MaxPending == 1
\* Failures in a row the real-time client reports in the bounded runs.
MaxFailures == 2
\* Presence snapshots: keys per snapshot and tracked entries per key.
MaxKeys == 2
MaxPerKey == 2
\* MediaRecorder objects created in one run.
MaxRecorders == 2
\* The clock advances in short steps of TickMs, at most MaxTicks of them in
\* a row, and by at most MaxLongTicks long steps of LongTickMs (enough for
\* the max-duration timeout).
TickMs == 250
MaxTicks == 2
MaxAcquire == 2
MaxLoops == 2
MaxRequests == 2
MaxFrames == 3
BinsPerFrame == 2
LongTickMs == 60000
MaxLongTicks == 1

\* ------------------------------------------------------- program constants
MAX_RECONNECT_ATTEMPTS == 100
BaseDelayMs == 1000
MaxDelayMs == 30000
JitterMs == 1000

Null == "null"
\* null in a variable that holds a channel object
NoChannel == 0
UserId == "u1"
ChannelIds == 1..MaxChannels
\* Math.random() * 1000 lies in [0, 1000): the two extremes of the range.
JitterSamples == {0, JitterMs - 1}

VARIABLES
  \* --- zustand store fields (usePresenceStore)
  connectionState, onlineUsers, currentUserId, channel,
  \* --- module-level state of usePresenceStore.ts
  globalChannel, isConnecting, reconnectAttempts,
  reconnectTimer, heartbeatTimer, keepAliveTimer,
  \* --- timers no module variable refers to (overwritten handles, the
  \*     stateMonitor interval and the anonymous setTimeout calls)
  leakedReconnect, leakedIntervals, stateMonitors, delayedReconnects,
  onlineTimeouts,
  \* --- real-time channels and suspended async calls
  chan, connectAwait, trackAwait,
  \* --- environment
  user, onLine,
  \* --- history: the handler that ran last, and whether an
  \*     explicit disconnect() is the last external command
  lastOp, terminal,
  \* --- channel.presenceState() as the sync handler last read it
  presenceState,
  \* --- MicrophoneManager: React state, the values the callbacks of the last
  \*     committed render closed over, refs, MediaRecorder objects, the status
  \*     of useAIStore, Date.now(), and the function the last step ran (history)
  stream, isRecording, rendered, audioProcessorRef, mediaRecorderRef,
  audioChunksRef, recordingStartTimeRef, maxDurationTimerRef, recorder,
  aiStatus, now, micOp,
  \* --- MicrophoneManager, microphone acquisition: React state, the
  \*     getUserMedia calls in flight, the running updateVolume loops, and
  \*     the name of the error of the last rejection (history)
  isMicrophoneEnabled, error, pendingAcquire, volumeLoop, lastReject,
  \* --- AudioProcessor: the smoothedVolume field, and as history the frames
  \*     getVolume has read and the function called last
  smoothedVolume, frames, volOp,
  \* --- heartbeat intervals whose handle was overwritten, by the channel
  \*     whose subscribe callback started them, and as history the owner of
  \*     the heartbeat that ticked in the last step
  leakedOwners, beatBy,
  \* --- MicrophoneManager, silence detection: the ENABLE_AUTO_STOP flag of
  \*     the build, silenceTimerRef, and the checkSilence polling loops with
  \*     the counter each one closes over
  autoStop, silenceTimerRef, loops,
  \* --- POST /api/ai/process: the session_memory row of one (user, session)
  \*     and the position and locals of each request being handled
  sessionRow, requests

presenceVars ==
  <<connectionState, onlineUsers, currentUserId, channel, globalChannel,
    isConnecting, reconnectAttempts, reconnectTimer, heartbeatTimer,
    keepAliveTimer, leakedReconnect, leakedIntervals, stateMonitors,
    delayedReconnects, onlineTimeouts, chan, connectAwait, trackAwait, user,
    onLine, lastOp, terminal>>

micVars ==
  <<stream, isRecording, rendered, audioProcessorRef, mediaRecorderRef,
    audioChunksRef, recordingStartTimeRef, maxDurationTimerRef, recorder,
    aiStatus, now, micOp>>

acquireVars ==
  <<isMicrophoneEnabled, error, pendingAcquire, volumeLoop, lastReject>>

volumeVars == <<smoothedVolume, frames, volOp>>

\* What the presence store's handlers never touch.
heartbeatVars == <<leakedOwners, beatBy>>

silenceVars == <<autoStop, silenceTimerRef, loops>>

memoryVars == <<sessionRow, requests>>

otherVars ==
  <<presenceState, micVars, acquireVars, volumeVars, heartbeatVars,
    silenceVars, memoryVars>>

vars ==
  <<presenceVars, presenceState, micVars, acquireVars, volumeVars,
    heartbeatVars, silenceVars, memoryVars>>

\* ------------------------------------------------------------------ timers
NoTimer == [st |-> "none", delay |-> 0]
FiredTimer == [st |-> "fired", delay |-> 0]
PendingTimer(d) == [st |-> "pending", delay |-> d]

Min(a, b) == IF a < b THEN a ELSE b

RECURSIVE Pow2(_)
Pow2(n) == IF n = 0 THEN 1 ELSE 2 * Pow2(n - 1)

\* Math.min(1000 * Math.pow(2, n), 30000) on IEEE doubles; for n > 20 the
\* power is taken as already above the cap so the product stays in TLC's
\* 32-bit integers.
BackoffBase(n) == IF n > 20 THEN MaxDelayMs ELSE Min(BaseDelayMs * Pow2(n), MaxDelayMs)

\* getReconnectDelay() reads the module variable reconnectAttempts; `n' is
\* its value at the time of the call.
getReconnectDelay(n, jitter) == BackoffBase(n) + jitter

\* ---------------------------------------------------------------- channels
\* `old' is history only: the channel already existed when the last
\* 'offline' event was handled.
\* `announced' is the presence last tracked on the channel: joinedAt names
\* the connect() call whose presenceData it is (by that call's channel), and
\* lastSeen tells the first announcement from a heartbeat's.
NotAnnounced == [joinedAt |-> 0, lastSeen |-> "none"]

FreeChannel == [life |-> "free", state |-> "closed", awaiting |-> FALSE,
                closePending |-> FALSE, old |-> FALSE,
                announced |-> NotAnnounced]
NewChannel == [life |-> "live", state |-> "joining", awaiting |-> TRUE,
               closePending |-> FALSE, old |-> FALSE,
               announced |-> NotAnnounced]

LiveChannels == {c \in ChannelIds : chan[c].life = "live"}

\* A slot can be reused when the channel object is unreachable: never
\* created, or removed with no CLOSED callback, suspended callback or
\* reference left.
IsFree(c) ==
  \/ chan[c].life = "free"
  \/ /\ chan[c].life = "removed"
     /\ ~chan[c].closePending
     /\ c \notin trackAwait
     /\ channel # c
     /\ globalChannel # c

FreeIds == {c \in ChannelIds : IsFree(c)}
FreshId == CHOOSE c \in FreeIds : \A d \in FreeIds : c <= d

\* supabase.removeChannel(c): unsubscribes; the leave reply later calls the
\* subscribe callback with CLOSED.  removeChannel(null) changes nothing.
RemoveChannel(ch, c) ==
  IF c = NoChannel \/ ch[c].life # "live" THEN ch
  ELSE [ch EXCEPT ![c] = [life |-> "removed", state |-> "closed",
                          awaiting |-> ch[c].awaiting, closePending |-> TRUE,
                          old |-> ch[c].old,
                          announced |-> ch[c].announced]]


\* ------------------------------------------------- usePresenceStore.ts body
\* clearTimers(): the three handles the module keeps are cancelled and
\* nulled; timers whose handle was overwritten or never stored are untouched.
clearTimers ==
  /\ reconnectTimer' = NoTimer
  /\ heartbeatTimer' = "none"
  /\ keepAliveTimer' = "none"

\* The retry scheduling shared by the error branch of the subscribe callback
\* and by connect()'s catch block.  rt0 is the handle held in reconnectTimer
\* when the block runs: it is overwritten without clearTimeout.  leak0 is the
\* number of overwritten, still pending retry timeouts at that point and
\* jitter the value of Math.random() * 1000 in getReconnectDelay().
ScheduleRetry(rt0, leak0, jitter) ==
  IF onLine /\ reconnectAttempts < MAX_RECONNECT_ATTEMPTS
  THEN /\ rt0.st = "pending" => leak0 < MaxPending
       /\ reconnectTimer' =
            PendingTimer(getReconnectDelay(reconnectAttempts + 1, jitter))
       /\ reconnectAttempts' = reconnectAttempts + 1
       /\ leakedReconnect' = leak0 + (IF rt0.st = "pending" THEN 1 ELSE 0)
  ELSE /\ reconnectTimer' = rt0
       /\ leakedReconnect' = leak0
       /\ UNCHANGED reconnectAttempts

\* connect()'s catch block (Math.random() taken at the low end of its range).
ConnectCatch(rt0, leak0) ==
  /\ isConnecting' = FALSE
  /\ connectionState' = "offline"
  /\ ScheduleRetry(rt0, leak0, 0)

\* supabase.channel(...), globalChannel = channel, channel.on(...),
\* channel.subscribe(...): one synchronous stretch.  ch1 and gc1 are the
\* channel table and the global reference as the teardown left them.
CreateAndSubscribe(ch1) ==
  /\ FreeIds # {}
  /\ chan' = [ch1 EXCEPT ![FreshId] = NewChannel]
  /\ globalChannel' = FreshId

\* A call of connect().  cs0, rt0 and leak0 are connectionState,
\* reconnectTimer and the leaked retry timeouts as the caller left them just
\* before the call; throws: supabase.channel(...) or subscribe(...) throws
\* in this call, if it gets that far.
\* Variant: connect() without its guard.
NotSignedIn_Never == FALSE

\* const { user } = useAuthStore.getState(); if (!user) return;
NotSignedIn == user = Null

AlreadyConnecting_Never == FALSE

\* if (isConnecting) return;
AlreadyConnecting == isConnecting

\* History only: the name a caller of connect() leaves in lastOp, telling
\* apart the calls made while isConnecting was set.
CallerOp(name, busyName) == IF isConnecting THEN busyName ELSE name

ConnectCall(cs0, rt0, leak0, throws) ==
  IF AlreadyConnecting \/ NotSignedIn
  THEN \* early return
       /\ connectionState' = cs0
       /\ reconnectTimer' = rt0
       /\ leakedReconnect' = leak0
       /\ UNCHANGED <<isConnecting, reconnectAttempts, heartbeatTimer,
                      keepAliveTimer, globalChannel, chan, connectAwait>>
  ELSE IF globalChannel # NoChannel
  THEN \* suspended on await globalChannel.untrack()
       /\ connectAwait < MaxPending
       /\ isConnecting' = TRUE
       /\ connectionState' = "reconnecting"
       /\ clearTimers
       /\ connectAwait' = connectAwait + 1
       /\ leakedReconnect' = leak0
       /\ UNCHANGED <<reconnectAttempts, globalChannel, chan>>
  ELSE \* no previous channel: runs to the end of connect() in one stretch
       IF ~throws
       THEN /\ isConnecting' = TRUE
            /\ connectionState' = "reconnecting"
            /\ clearTimers
            /\ CreateAndSubscribe(chan)
            /\ leakedReconnect' = leak0
            /\ UNCHANGED <<reconnectAttempts, connectAwait>>
       ELSE \* supabase.channel / subscribe throws: the catch block
            /\ heartbeatTimer' = "none"
            /\ keepAliveTimer' = "none"
            /\ ConnectCatch(NoTimer, leak0)
            /\ UNCHANGED <<globalChannel, chan, connectAwait>>

ConnectTouched ==
  <<connectionState, reconnectTimer, isConnecting, reconnectAttempts,
    heartbeatTimer, keepAliveTimer, leakedReconnect, globalChannel, chan,
    connectAwait>>

\* connect() called by the page effect or by ConnectionStatus (a
\* caller-initiated connect).
ManualConnect(throws) ==
  /\ ConnectCall(connectionState, reconnectTimer, leakedReconnect, throws)
  /\ lastOp' = CallerOp("connect", "connectBusy")
  /\ UNCHANGED otherVars
  /\ terminal' = FALSE
  /\ UNCHANGED <<onlineUsers, currentUserId, channel, leakedIntervals,
                 stateMonitors, delayedReconnects, onlineTimeouts, trackAwait,
                 user, onLine>>

\* The rest of connect() after await globalChannel.untrack() settles.
\* untrackOk: the promise resolved; otherwise it rejected and the inner catch
\* swallowed it, skipping removeChannel and globalChannel = null.
ConnectResume(untrackOk, throws) ==
  /\ connectAwait > 0
  /\ connectAwait' = connectAwait - 1
  /\ LET ch1 == IF untrackOk THEN RemoveChannel(chan, globalChannel) ELSE chan
         gc1 == IF untrackOk THEN NoChannel ELSE globalChannel
     IN IF ~throws
        THEN /\ CreateAndSubscribe(ch1)
             /\ UNCHANGED <<connectionState, isConnecting, reconnectAttempts,
                            reconnectTimer, leakedReconnect>>
        ELSE /\ chan' = ch1
             /\ globalChannel' = gc1
             /\ ConnectCatch(reconnectTimer, leakedReconnect)
  /\ lastOp' = "connectResume"
  /\ UNCHANGED otherVars
  /\ UNCHANGED <<onlineUsers, currentUserId, channel, heartbeatTimer,
                 keepAliveTimer, leakedIntervals, stateMonitors,
                 delayedReconnects, onlineTimeouts, trackAwait, user, onLine,
                 terminal>>

\* disconnect(): untrack() is not awaited, so removeChannel always runs.
Disconnect ==
  /\ isConnecting' = FALSE
  /\ clearTimers
  /\ chan' = RemoveChannel(chan, globalChannel)
  /\ globalChannel' = NoChannel
  /\ connectionState' = "offline"
  /\ onlineUsers' = <<>>
  /\ currentUserId' = Null
  /\ channel' = NoChannel
  /\ lastOp' = "disconnect"
  /\ UNCHANGED otherVars
  /\ terminal' = TRUE
  /\ UNCHANGED <<reconnectAttempts, leakedReconnect, leakedIntervals,
                 stateMonitors, delayedReconnects, onlineTimeouts, connectAwait,
                 trackAwait, user, onLine>>


\* ------------------------------------------------ the subscribe callback
\* status === 'SUBSCRIBED': the callback calls channel.track(presenceData)
\* and is suspended on its promise.
StatusSubscribed(c) ==
  /\ chan[c].life = "live"
  /\ chan[c].state = "joining"
  /\ c \notin trackAwait
  /\ chan' = [chan EXCEPT ![c].state = "joined", ![c].awaiting = FALSE,
                          ![c].announced =
                            [joinedAt |-> c, lastSeen |-> "joined"]]
  /\ trackAwait' = trackAwait \cup {c}
  /\ lastOp' = "subscribed"
  /\ UNCHANGED otherVars
  /\ UNCHANGED <<connectionState, onlineUsers, currentUserId, channel,
                 globalChannel, isConnecting, reconnectAttempts, reconnectTimer,
                 heartbeatTimer, keepAliveTimer, leakedReconnect,
                 leakedIntervals, stateMonitors, delayedReconnects,
                 onlineTimeouts, connectAwait, user, onLine, terminal>>

\* The SUBSCRIBED branch after await channel.track(...).  trackOk = FALSE:
\* the promise rejected and the async callback ends there.
TrackResume(c, trackOk) ==
  /\ c \in trackAwait
  /\ trackAwait' = trackAwait \ {c}
  /\ IF trackOk
     THEN /\ stateMonitors < MaxPending
          /\ heartbeatTimer = "active" => leakedIntervals < MaxPending
          /\ connectionState' = "connected"
          /\ currentUserId' = UserId
          /\ channel' = c
          /\ isConnecting' = FALSE
          /\ reconnectAttempts' = 0
          /\ heartbeatTimer' = "active"
          /\ keepAliveTimer' = "active"
          /\ leakedIntervals' =
               leakedIntervals + (IF heartbeatTimer = "active" THEN 1 ELSE 0)
          /\ stateMonitors' = stateMonitors + 1
          /\ leakedOwners' =
               IF heartbeatTimer = "active"
               THEN leakedOwners \cup {channel} ELSE leakedOwners
     ELSE UNCHANGED <<connectionState, currentUserId, channel, isConnecting,
                      reconnectAttempts, heartbeatTimer, keepAliveTimer,
                      leakedIntervals, stateMonitors, leakedOwners>>
  /\ lastOp' = IF trackOk THEN "trackResume" ELSE "trackRejected"
  /\ beatBy' = NoChannel
  /\ UNCHANGED <<presenceState, micVars, acquireVars, volumeVars,
                 silenceVars, memoryVars>>
  /\ UNCHANGED <<onlineUsers, globalChannel, reconnectTimer, leakedReconnect,
                 delayedReconnects, onlineTimeouts, chan, connectAwait, user,
                 onLine, terminal>>

ErrorStatuses == {"CHANNEL_ERROR", "TIMED_OUT", "CLOSED"}

\* When the real-time client reports which status: a join that fails or
\* times out, a joined channel that errors or is closed by the server, and
\* the CLOSED that follows removeChannel.
CanReport(c, status) ==
  \/ /\ chan[c].life = "live"
     /\ chan[c].state = "joining"
     /\ status \in {"CHANNEL_ERROR", "TIMED_OUT"}
  \/ /\ chan[c].life = "live"
     /\ chan[c].state = "joined"
     /\ status \in {"CHANNEL_ERROR", "CLOSED"}
  \/ /\ chan[c].life = "removed"
     /\ chan[c].closePending
     /\ status = "CLOSED"

\* status is CHANNEL_ERROR, TIMED_OUT or CLOSED.
StatusError(c, status, jitter) ==
  /\ CanReport(c, status)
  /\ chan' = [chan EXCEPT
                ![c].state = IF status = "CLOSED" THEN "closed" ELSE "errored",
                ![c].awaiting = FALSE,
                ![c].closePending = FALSE]
  /\ isConnecting' = FALSE
  /\ connectionState' = "offline"
  /\ ScheduleRetry(reconnectTimer, leakedReconnect, jitter)
  /\ lastOp' = "statusError"
  /\ UNCHANGED otherVars
  /\ UNCHANGED <<onlineUsers, currentUserId, channel, globalChannel,
                 heartbeatTimer, keepAliveTimer, leakedIntervals, stateMonitors,
                 delayedReconnects, onlineTimeouts, connectAwait, trackAwait,
                 user, onLine, terminal>>

\* The client rejoins an errored or closed channel by itself
\* (maintainConnection calls channel.rejoin()).
Rejoin(c) ==
  /\ chan[c].life = "live"
  /\ chan[c].state \in {"errored", "closed"}
  /\ chan' = [chan EXCEPT ![c].state = "joining"]
  /\ lastOp' = "rejoin"
  /\ UNCHANGED otherVars
  /\ UNCHANGED <<connectionState, onlineUsers, currentUserId, channel,
                 globalChannel, isConnecting, reconnectAttempts, reconnectTimer,
                 heartbeatTimer, keepAliveTimer, leakedReconnect,
                 leakedIntervals, stateMonitors, delayedReconnects,
                 onlineTimeouts, connectAwait, trackAwait, user, onLine,
                 terminal>>

\* ------------------------------------------------------------------ timers
\* The timeout held in reconnectTimer fires: () => get().connect().  The
\* handle is not nulled by the callback.
ReconnectTimerFire(throws) ==
  /\ reconnectTimer.st = "pending"
  /\ ConnectCall(connectionState, FiredTimer, leakedReconnect, throws)
  /\ lastOp' = CallerOp("reconnectTimer", "reconnectTimerBusy")
  /\ UNCHANGED otherVars
  /\ UNCHANGED <<onlineUsers, currentUserId, channel, leakedIntervals,
                 stateMonitors, delayedReconnects, onlineTimeouts, trackAwait,
                 user, onLine, terminal>>

\* A retry timeout whose handle was overwritten fires.
LeakedReconnectFire(throws) ==
  /\ leakedReconnect > 0
  /\ ConnectCall(connectionState, reconnectTimer, leakedReconnect - 1, throws)
  /\ lastOp' = CallerOp("reconnectTimer", "reconnectTimerBusy")
  /\ UNCHANGED otherVars
  /\ UNCHANGED <<onlineUsers, currentUserId, channel, leakedIntervals,
                 stateMonitors, delayedReconnects, onlineTimeouts, trackAwait,
                 user, onLine, terminal>>


\* Variant: a heartbeat that does not look at the channel's state.
Beat_Unguarded(o) ==
  /\ chan' =
       IF globalChannel # NoChannel
       THEN [chan EXCEPT ![globalChannel].announced =
                           [joinedAt |-> o, lastSeen |-> "updated"]]
       ELSE chan
  /\ beatBy' = o
  /\ lastOp' = "heartbeat"
  /\ UNCHANGED <<presenceState, micVars, acquireVars, volumeVars,
                 silenceVars, memoryVars>>
  /\ UNCHANGED <<connectionState, onlineUsers, currentUserId, channel,
                 globalChannel, isConnecting, reconnectAttempts, reconnectTimer,
                 heartbeatTimer, keepAliveTimer, leakedReconnect,
                 leakedIntervals, stateMonitors, delayedReconnects,
                 onlineTimeouts, connectAwait, trackAwait, user, onLine,
                 terminal, leakedOwners>>

\* What a tick of a heartbeat interval started by channel o's subscribe
\* callback does: if globalChannel is joined, it tracks o's presenceData
\* with a new lastSeen on globalChannel.
Beat(o) ==
  /\ chan' =
       IF globalChannel # NoChannel /\ chan[globalChannel].state = "joined"
       THEN [chan EXCEPT ![globalChannel].announced =
                           [joinedAt |-> o, lastSeen |-> "updated"]]
       ELSE chan
  /\ beatBy' = o
  /\ lastOp' = "heartbeat"
  /\ UNCHANGED <<presenceState, micVars, acquireVars, volumeVars,
                 silenceVars, memoryVars>>
  /\ UNCHANGED <<connectionState, onlineUsers, currentUserId, channel,
                 globalChannel, isConnecting, reconnectAttempts, reconnectTimer,
                 heartbeatTimer, keepAliveTimer, leakedReconnect,
                 leakedIntervals, stateMonitors, delayedReconnects,
                 onlineTimeouts, connectAwait, trackAwait, user, onLine,
                 terminal, leakedOwners>>

\* The interval held in heartbeatTimer ticks; it was started by the
\* callback of the channel in the store's channel field.
HeartbeatTick ==
  /\ heartbeatTimer = "active"
  /\ Beat(channel)

\* A heartbeat interval whose handle was overwritten ticks.
LeakedHeartbeatTick(o) ==
  /\ o \in leakedOwners
  /\ Beat(o)

\* A stateMonitor interval ticks.  It looks at the channel globalChannel
\* refers to now; on a bad state it cancels itself and, when the browser is
\* online, arms the 1000 ms reconnect.
MonitorTick ==
  /\ stateMonitors > 0
  /\ IF globalChannel # NoChannel /\ chan[globalChannel].state \in {"closed", "errored"}
     THEN /\ stateMonitors' = stateMonitors - 1
          /\ IF onLine
             THEN /\ delayedReconnects < MaxPending
                  /\ delayedReconnects' = delayedReconnects + 1
             ELSE UNCHANGED delayedReconnects
     ELSE UNCHANGED <<stateMonitors, delayedReconnects>>
  /\ lastOp' = "stateMonitor"
  /\ UNCHANGED otherVars
  /\ UNCHANGED <<connectionState, onlineUsers, currentUserId, channel,
                 globalChannel, isConnecting, reconnectAttempts, reconnectTimer,
                 heartbeatTimer, keepAliveTimer, leakedReconnect,
                 leakedIntervals, onlineTimeouts, chan, connectAwait,
                 trackAwait, user, onLine, terminal>>

\* The state monitor's setTimeout fires:
\* set({ connectionState: 'offline' }); get().connect().
DelayedReconnectFire(throws) ==
  /\ delayedReconnects > 0
  /\ delayedReconnects' = delayedReconnects - 1
  /\ ConnectCall("offline", reconnectTimer, leakedReconnect, throws)
  /\ lastOp' = CallerOp("delayedReconnect", "delayedReconnectBusy")
  /\ UNCHANGED otherVars
  /\ UNCHANGED <<onlineUsers, currentUserId, channel, leakedIntervals,
                 stateMonitors, onlineTimeouts, trackAwait, user, onLine,
                 terminal>>

\* ------------------------------------------------------- browser events
\* window 'online'.
Online ==
  /\ ~onLine
  /\ onLine' = TRUE
  /\ reconnectAttempts' = 0
  /\ IF connectionState # "connected"
     THEN /\ onlineTimeouts < MaxPending
          /\ onlineTimeouts' = onlineTimeouts + 1
     ELSE UNCHANGED onlineTimeouts
  /\ lastOp' = "online"
  /\ UNCHANGED otherVars
  /\ terminal' = FALSE
  /\ UNCHANGED <<connectionState, onlineUsers, currentUserId, channel,
                 globalChannel, isConnecting, reconnectTimer, heartbeatTimer,
                 keepAliveTimer, leakedReconnect, leakedIntervals,
                 stateMonitors, delayedReconnects, chan, connectAwait,
                 trackAwait, user>>

\* The online handler's setTimeout(() => store.connect(), 500) fires.
OnlineTimeoutFire(throws) ==
  /\ onlineTimeouts > 0
  /\ onlineTimeouts' = onlineTimeouts - 1
  /\ ConnectCall(connectionState, reconnectTimer, leakedReconnect, throws)
  /\ lastOp' = CallerOp("onlineTimeout", "onlineTimeoutBusy")
  /\ UNCHANGED otherVars
  /\ UNCHANGED <<onlineUsers, currentUserId, channel, leakedIntervals,
                 stateMonitors, delayedReconnects, trackAwait, user, onLine,
                 terminal>>

\* window 'offline'.
Offline ==
  /\ onLine
  /\ onLine' = FALSE
  /\ connectionState' = "offline"
  /\ chan' = [c \in ChannelIds |->
               [chan[c] EXCEPT !.old = (chan[c].life # "free")]]
  /\ lastOp' = "offline"
  /\ UNCHANGED otherVars
  /\ UNCHANGED <<onlineUsers, currentUserId, channel, globalChannel,
                 isConnecting, reconnectAttempts, reconnectTimer,
                 heartbeatTimer, keepAliveTimer, leakedReconnect,
                 leakedIntervals, stateMonitors, delayedReconnects,
                 onlineTimeouts, connectAwait, trackAwait, user,
                 terminal>>

\* window 'focus'.
Focus(throws) ==
  /\ IF connectionState = "offline" /\ onLine
     THEN /\ ConnectCall(connectionState, reconnectTimer, leakedReconnect, throws)
     ELSE UNCHANGED ConnectTouched
  /\ lastOp' = "focus"
  /\ UNCHANGED otherVars
  /\ terminal' = FALSE
  /\ UNCHANGED <<onlineUsers, currentUserId, channel, leakedIntervals,
                 stateMonitors, delayedReconnects, onlineTimeouts, trackAwait,
                 user, onLine>>

\* lib/supabase.ts replaces document.addEventListener before the store
\* module runs (the store imports it): a 'visibilitychange' listener whose
\* source text contains one of these words is not registered.  A listener's
\* text is modelled by the set of the identifiers it contains.
FilterWords == {"hidden", "disconnect", "realtime"}

ListenerDropped_Never(type, text) == FALSE

ListenerDropped(type, text) ==
  type = "visibilitychange" /\ text \cap FilterWords # {}

\* The text of the store's visibilitychange listener.
StoreVisibilityListener ==
  {"document", "hidden", "store", "usePresenceStore", "getState",
   "connectionState", "offline", "connect"}

VisibilityListenerRegistered ==
  ~ListenerDropped("visibilitychange", StoreVisibilityListener)

\* document 'visibilitychange'; hidden is document.hidden as the handler
\* reads it.  The handler runs only if its registration went through.
VisibilityChange(hidden, throws) ==
  /\ IF VisibilityListenerRegistered /\ ~hidden /\ connectionState = "offline"
     THEN /\ ConnectCall(connectionState, reconnectTimer, leakedReconnect, throws)
     ELSE UNCHANGED ConnectTouched
  /\ lastOp' = "visibilitychange"
  /\ UNCHANGED otherVars
  /\ terminal' = FALSE
  /\ UNCHANGED <<onlineUsers, currentUserId, channel, leakedIntervals,
                 stateMonitors, delayedReconnects, onlineTimeouts, trackAwait,
                 user, onLine>>


\* useAuthStore: the user signs in or out (the page effect then calls
\* connect() or disconnect() as steps of their own).
SignIn ==
  /\ user = Null
  /\ user' = UserId
  /\ lastOp' = "signIn"
  /\ UNCHANGED otherVars
  /\ UNCHANGED <<connectionState, onlineUsers, currentUserId, channel,
                 globalChannel, isConnecting, reconnectAttempts, reconnectTimer,
                 heartbeatTimer, keepAliveTimer, leakedReconnect,
                 leakedIntervals, stateMonitors, delayedReconnects,
                 onlineTimeouts, chan, connectAwait, trackAwait, onLine,
                 terminal>>

SignOut ==
  /\ user # Null
  /\ user' = Null
  /\ lastOp' = "signOut"
  /\ UNCHANGED otherVars
  /\ UNCHANGED <<connectionState, onlineUsers, currentUserId, channel,
                 globalChannel, isConnecting, reconnectAttempts, reconnectTimer,
                 heartbeatTimer, keepAliveTimer, leakedReconnect,
                 leakedIntervals, stateMonitors, delayedReconnects,
                 onlineTimeouts, chan, connectAwait, trackAwait, onLine,
                 terminal>>

\* ------------------------------------------------- presence sync handler
\* A tracked presence as the channel reports it.  userId "" and lastSeen 0
\* stand for a missing (falsy) field.
Presences ==
  { [userId |-> "u1", joinedAt |-> 1, lastSeen |-> 5],
    [userId |-> "u1", joinedAt |-> 2, lastSeen |-> 0],
    [userId |-> "u2", joinedAt |-> 1, lastSeen |-> 0],
    [userId |-> "",   joinedAt |-> 3, lastSeen |-> 0] }

\* The entry the handler pushes for one presence:
\* lastSeen: presence.lastSeen || presence.joinedAt.
ToPresenceUser(p) ==
  [userId |-> p.userId, joinedAt |-> p.joinedAt,
   lastSeen |-> IF p.lastSeen # 0 THEN p.lastSeen ELSE p.joinedAt]

RECURSIVE PushUsers(_, _)
\* presences.forEach: push the entries that have a userId, in order.
PushUsers(users, presences) ==
  IF presences = <<>> THEN users
  ELSE PushUsers(IF Head(presences).userId # ""
                 THEN Append(users, ToPresenceUser(Head(presences)))
                 ELSE users,
                 Tail(presences))

RECURSIVE CollectUsers(_, _)
\* Object.keys(presenceState).forEach over the keys in order; snap is the
\* sequence of [key, presences] pairs in Object.keys order.
CollectUsers(users, snap) ==
  IF snap = <<>> THEN users
  ELSE CollectUsers(PushUsers(users, Head(snap).presences), Tail(snap))

\* Variant: the index of the last entry with that userId.
findIndex_Last(self, uid) ==
  IF \E i \in DOMAIN self : self[i].userId = uid
  THEN CHOOSE i \in DOMAIN self :
         /\ self[i].userId = uid
         /\ \A k \in (i + 1)..Len(self) : self[k].userId # uid
  ELSE 0

\* self.findIndex((u) => u.userId === uid); 0 stands for -1.
findIndex(self, uid) ==
  IF \E i \in DOMAIN self : self[i].userId = uid
  THEN CHOOSE i \in DOMAIN self :
         /\ self[i].userId = uid
         /\ \A k \in 1..(i - 1) : self[k].userId # uid
  ELSE 0

RECURSIVE FilterFrom(_, _)
\* users.filter((user, index, self) => index === self.findIndex(...)),
\* visiting the indices from i upwards.
FilterFrom(users, i) ==
  IF i > Len(users) THEN <<>>
  ELSE IF i = findIndex(users, users[i].userId)
       THEN <<users[i]>> \o FilterFrom(users, i + 1)
       ELSE FilterFrom(users, i + 1)

uniqueUsers(users) == FilterFrom(users, 1)

\* What the sync handler stores in onlineUsers for a snapshot.
SyncedUsers(snap) == uniqueUsers(CollectUsers(<<>>, snap))

\* The snapshots delivered to a channel of the store.
SyncSamples ==
  { <<>>,
    << [key |-> "u2", presences |-> <<[userId |-> "u2", joinedAt |-> 1, lastSeen |-> 0]>>] >> }

\* channel.on('presence', { event: 'sync' }, ...) of channel c runs.  The
\* client still routes messages to a removed channel until its leave is
\* acknowledged.
PresenceSync(c) ==
  /\ \/ chan[c].life = "live"
     \/ chan[c].life = "removed" /\ chan[c].closePending
  /\ \E snap \in SyncSamples :
       /\ presenceState' = snap
       /\ onlineUsers' = SyncedUsers(snap)
  /\ lastOp' = IF chan[c].life = "removed" THEN "syncRemoved" ELSE "sync"
  /\ UNCHANGED <<connectionState, currentUserId, channel, globalChannel,
                 isConnecting, reconnectAttempts, reconnectTimer,
                 heartbeatTimer, keepAliveTimer, leakedReconnect,
                 leakedIntervals, stateMonitors, delayedReconnects,
                 onlineTimeouts, chan, connectAwait, trackAwait, user, onLine,
                 terminal>>
  /\ UNCHANGED <<micVars, acquireVars, volumeVars, heartbeatVars,
                 silenceVars, memoryVars>>

\* A presence joins the channel and the channel reports the new snapshot to
\* the sync handler.  Snapshots hold up to MaxKeys keys in Object.keys order
\* and up to MaxPerKey tracked entries under each; the entry goes under a new
\* key (newKey) or under the last one.
PresenceJoin(p, newKey) ==
  /\ IF newKey
     THEN Len(presenceState) < MaxKeys
     ELSE /\ presenceState # <<>>
          /\ Len(presenceState[Len(presenceState)].presences) < MaxPerKey
  /\ LET snap ==
           IF newKey
           THEN Append(presenceState,
                       [key |-> Len(presenceState) + 1, presences |-> <<p>>])
           ELSE [presenceState EXCEPT
                   ![Len(presenceState)].presences = Append(@, p)]
     IN /\ presenceState' = snap
        /\ onlineUsers' = SyncedUsers(snap)
  /\ lastOp' = "sync"
  /\ UNCHANGED <<connectionState, currentUserId, channel, globalChannel,
                 isConnecting, reconnectAttempts, reconnectTimer,
                 heartbeatTimer, keepAliveTimer, leakedReconnect,
                 leakedIntervals, stateMonitors, delayedReconnects,
                 onlineTimeouts, chan, connectAwait, trackAwait, user, onLine,
                 terminal>>
  /\ UNCHANGED <<micVars, acquireVars, volumeVars, heartbeatVars,
                 silenceVars, memoryVars>>

\* ------------------------------------------------- MicrophoneManager.tsx
\* VAD_CONFIG.minRecordingDuration / maxRecordingDuration
minRecordingDuration == 500
maxRecordingDuration == 60000
\* if (audioBlob.size < 1000)
MinBlobBytes == 1000
ENABLE_AUTO_STOP == FALSE
REQUIRED_SILENT_CHECKS == 3

NoRecorder == 0
RecorderIds == 1..MaxRecorders
TickSteps == {TickMs, LongTickMs}
\* event.data.size of a dataavailable event: empty, small, large.
ChunkSizes == {0, 600, 1000}

UnusedRecorder ==
  [state |-> "unused", pending |-> "none", startedAt |-> 0, elapsed |-> 0,
   measured |-> 0, outcome |-> "none", clip |-> <<>>]

Recording == {r \in RecorderIds : recorder[r].state = "recording"}

\* session?.access_token of useAuthStore.
HasToken == user # Null

\* The values a render hands to the callbacks it creates.
CurrentRender ==
  [isRecording |-> isRecording, stream |-> stream, status |-> aiStatus,
   session |-> HasToken, enabled |-> isMicrophoneEnabled, error |-> error]

\* Both buttons are disabled while status is 'processing'.
ButtonsEnabled == rendered.status # "processing"

RECURSIVE SumBytes(_)
\* new Blob(audioChunksRef.current).size; a chunk is the size of event.data
\* and, as history, the recorder that produced it.
SumBytes(chunks) ==
  IF chunks = <<>> THEN 0 ELSE Head(chunks).size + SumBytes(Tail(chunks))

\* MediaRecorder.stop(), or the recorder ending by itself: the state is
\* inactive at once; dataavailable and then stop are delivered later.
StopRecorder(rec, r) ==
  [rec EXCEPT ![r].state = "inactive", ![r].pending = "data"]

CancelledTimer(t) == IF t.st = "pending" THEN NoTimer ELSE t

\* Variant: stopRecording() that only clears the isRecording state.
stopRecording_FlagOnly(closureIsRecording) ==
  /\ isRecording' = FALSE
  /\ UNCHANGED <<maxDurationTimerRef, recorder>>

\* stopRecording() of a render whose isRecording is closureIsRecording.
stopRecording(closureIsRecording) ==
  IF ~closureIsRecording \/ mediaRecorderRef = NoRecorder
  THEN UNCHANGED <<maxDurationTimerRef, recorder, isRecording>>
  ELSE /\ maxDurationTimerRef' = CancelledTimer(maxDurationTimerRef)
       /\ recorder' = IF recorder[mediaRecorderRef].state = "recording"
                      THEN StopRecorder(recorder, mediaRecorderRef)
                      ELSE recorder
       /\ isRecording' = FALSE

\* if (!stream || !audioProcessorRef.current || isRecording
\*     || !session?.access_token) return;
StartRefused ==
  \/ ~rendered.stream
  \/ ~audioProcessorRef
  \/ rendered.isRecording
  \/ ~rendered.session

FreshRecorder ==
  CHOOSE r \in RecorderIds :
    /\ recorder[r].state = "unused"
    /\ \A q \in RecorderIds : recorder[q].state = "unused" => r <= q

\* startRecording() of the last committed render.
startRecording ==
  IF StartRefused
  THEN UNCHANGED <<isRecording, audioChunksRef, recordingStartTimeRef,
                   aiStatus, maxDurationTimerRef, recorder, mediaRecorderRef>>
  ELSE /\ \E r \in RecorderIds : recorder[r].state = "unused"
       /\ isRecording' = TRUE
       /\ audioChunksRef' = <<>>
       /\ recordingStartTimeRef' = now
       /\ aiStatus' = "listening"
       /\ recorder' = [recorder EXCEPT ![FreshRecorder] =
                         [state |-> "recording", pending |-> "none",
                          startedAt |-> now, elapsed |-> 0,
                          measured |-> 0, outcome |-> "none",
                          clip |-> <<>>]]
       /\ mediaRecorderRef' = FreshRecorder
       /\ maxDurationTimerRef' = PendingTimer(now + maxRecordingDuration)

MicFrame ==
  UNCHANGED <<presenceVars, presenceState, acquireVars, volumeVars,
              heartbeatVars, silenceVars, memoryVars>>

\* The same for the steps that call startRecording or stopRecording.
RecordingFrame ==
  UNCHANGED <<presenceVars, presenceState, acquireVars, volumeVars,
              heartbeatVars, autoStop, memoryVars>>

\* -------------------------------------------------------- silence detection
\* silenceTimerRef.current: null, a pending timeout, or the stale handle of a
\* timeout that fired or was cleared without the ref being nulled.  As
\* history a pending timeout carries the counter value of the check that
\* armed it and the recorder that was current then.
NullSilenceTimer == [st |-> "null", run |-> 0, rec |-> NoRecorder]

LoopIds == 1..MaxLoops
IdleLoop == [active |-> FALSE, consec |-> 0]
FreeLoop == CHOOSE l \in LoopIds : ~loops[l].active

\* if (silenceTimerRef.current) clearTimeout(silenceTimerRef.current);
ClearedSilence(t) == IF t.st = "pending" THEN [t EXCEPT !.st = "stale"] ELSE t

\* Variant: the timeout is armed by the first silent check.
ArmNeeded_One == REQUIRED_SILENT_CHECKS - 2

\* consecutiveSilenceChecks >= REQUIRED_SILENT_CHECKS
ArmNeeded == REQUIRED_SILENT_CHECKS

\* The counter after one more silent check (kept at the threshold once
\* there: the code only compares it with the threshold).
Counted(consec) == Min(consec + 1, REQUIRED_SILENT_CHECKS)

\* The body of checkSilence past its guard: consec1 is the loop's counter
\* after the check, r the current recorder.
CheckedTimer(t, consec1, silent, r) ==
  IF silent
  THEN IF consec1 >= ArmNeeded /\ t.st = "null"
       THEN [st |-> "pending", run |-> consec1, rec |-> r]
       ELSE t
  ELSE NullSilenceTimer

\* What stopRecording() does to the silence timeout.
stopSilence(closureIsRecording) ==
  /\ silenceTimerRef' =
       IF ~closureIsRecording \/ mediaRecorderRef = NoRecorder
       THEN silenceTimerRef
       ELSE ClearedSilence(silenceTimerRef)
  /\ UNCHANGED loops

\* What startRecording() does to silence detection: the clearTimeout at its
\* start and startSilenceDetection() with its first, synchronous check.
startSilence(silent) ==
  IF StartRefused
  THEN UNCHANGED <<silenceTimerRef, loops>>
  ELSE IF ~autoStop
  THEN /\ silenceTimerRef' = ClearedSilence(silenceTimerRef)
       /\ UNCHANGED loops
  ELSE /\ \E l \in LoopIds : ~loops[l].active
       /\ silenceTimerRef' =
            CheckedTimer(ClearedSilence(silenceTimerRef),
                         IF silent THEN 1 ELSE 0, silent, FreshRecorder)
       /\ loops' = [loops EXCEPT ![FreeLoop] =
                      [active |-> TRUE, consec |-> IF silent THEN 1 ELSE 0]]

\* A scheduled checkSilence of loop l runs.  silent is what isSilent()
\* returns; last: checkCount has reached 600 and the loop is not rescheduled.
CheckSilence(l, silent, last) ==
  /\ loops[l].active
  /\ IF ~audioProcessorRef \/ mediaRecorderRef = NoRecorder
        \/ recorder[mediaRecorderRef].state # "recording"
     THEN /\ loops' = [loops EXCEPT ![l] = IdleLoop]
          /\ UNCHANGED silenceTimerRef
     ELSE LET consec1 == IF silent THEN Counted(loops[l].consec) ELSE 0
          IN /\ silenceTimerRef' =
                  CheckedTimer(silenceTimerRef, consec1, silent, mediaRecorderRef)
             /\ loops' = [loops EXCEPT ![l] =
                            IF last THEN IdleLoop
                            ELSE [active |-> TRUE, consec |-> consec1]]
  /\ micOp' = IF silent THEN "silentCheck" ELSE "voicedCheck"
  /\ UNCHANGED <<stream, isRecording, rendered, audioProcessorRef,
                 mediaRecorderRef, audioChunksRef, recordingStartTimeRef,
                 maxDurationTimerRef, recorder, aiStatus, now>>
  /\ RecordingFrame

\* The silence timeout fires; the handle stays in the ref.
SilenceTimerFire ==
  /\ silenceTimerRef.st = "pending"
  /\ silenceTimerRef' = [silenceTimerRef EXCEPT !.st = "stale"]
  /\ IF mediaRecorderRef # NoRecorder
        /\ recorder[mediaRecorderRef].state = "recording"
     THEN /\ recorder' = StopRecorder(recorder, mediaRecorderRef)
          /\ isRecording' = FALSE
     ELSE UNCHANGED <<recorder, isRecording>>
  /\ micOp' = "silenceFire"
  /\ UNCHANGED <<stream, rendered, audioProcessorRef, mediaRecorderRef,
                 audioChunksRef, recordingStartTimeRef, maxDurationTimerRef,
                 aiStatus, now, loops>>
  /\ RecordingFrame

InitSilence ==
  /\ silenceTimerRef = NullSilenceTimer
  /\ loops = [l \in LoopIds |-> IdleLoop]

\* The record button: toggleRecording of the last committed render.  The
\* button is there while the microphone is enabled, and disabled without a
\* stream or with an error.
ToggleRecording ==
  /\ rendered.enabled
  /\ rendered.stream
  /\ rendered.error = Null
  /\ ButtonsEnabled
  /\ IF rendered.isRecording
     THEN /\ stopRecording(rendered.isRecording)
          /\ stopSilence(rendered.isRecording)
          /\ micOp' = "stopRecording"
          /\ UNCHANGED <<audioChunksRef, recordingStartTimeRef, aiStatus,
                         mediaRecorderRef>>
     ELSE /\ startRecording
          /\ \E silent \in BOOLEAN : startSilence(silent)
          /\ micOp' = "startRecording"
  /\ UNCHANGED <<stream, rendered, audioProcessorRef, now>>
  /\ RecordingFrame

\* What the presence store and the AudioProcessor arithmetic are to the
\* acquisition steps.
AcquireFrame ==
  UNCHANGED <<presenceVars, presenceState, volumeVars, heartbeatVars,
              silenceVars, memoryVars>>

\* Variant: every failure gets the default message.
ErrorMessage_Default(name) == "Failed to access microphone"

\* The catch block of startListening: the message for err.name.
ErrorMessage(name) ==
  IF name = "NotAllowedError" THEN "Microphone access denied."
  ELSE IF name = "NotFoundError" THEN "No microphone found."
  ELSE IF name = "NotReadableError" THEN "Microphone is in use."
  ELSE "Failed to access microphone"

\* The names getUserMedia rejects with: the three the code tells apart and
\* one of the others.
ErrorNames ==
  {"NotAllowedError", "NotFoundError", "NotReadableError", "AbortError"}

\* The microphone button while disabled: startListening with a getUserMedia
\* that resolves and an AudioProcessor that is constructed, in one step.
StartListening ==
  /\ ~rendered.enabled
  /\ ButtonsEnabled
  /\ error' = Null
  /\ stream' = TRUE
  /\ isMicrophoneEnabled' = TRUE
  /\ audioProcessorRef' = TRUE
  /\ volumeLoop' = TRUE
  /\ lastReject' = Null
  /\ micOp' = "other"
  /\ UNCHANGED <<isRecording, rendered, mediaRecorderRef, audioChunksRef,
                 recordingStartTimeRef, maxDurationTimerRef, recorder, aiStatus,
                 now, pendingAcquire>>
  /\ AcquireFrame

\* startListening up to await navigator.mediaDevices.getUserMedia(...).
StartListeningBegin ==
  /\ ~rendered.enabled
  /\ ButtonsEnabled
  /\ pendingAcquire < MaxAcquire
  /\ error' = Null
  /\ pendingAcquire' = pendingAcquire + 1
  /\ lastReject' = Null
  /\ micOp' = "startListening"
  /\ UNCHANGED <<stream, isRecording, rendered, audioProcessorRef,
                 mediaRecorderRef, audioChunksRef, recordingStartTimeRef,
                 maxDurationTimerRef, recorder, aiStatus, now,
                 isMicrophoneEnabled, volumeLoop>>
  /\ AcquireFrame

\* getUserMedia resolves: the rest of the try block.  ctorOk = FALSE: new
\* AudioProcessor(...) throws, and the catch block runs after the stream
\* was stored.
AcquireResolve(ctorOk) ==
  /\ pendingAcquire > 0
  /\ pendingAcquire' = pendingAcquire - 1
  /\ stream' = TRUE
  /\ IF ctorOk
     THEN /\ isMicrophoneEnabled' = TRUE
          /\ audioProcessorRef' = TRUE
          /\ volumeLoop' = TRUE
          /\ UNCHANGED error
     ELSE /\ isMicrophoneEnabled' = FALSE
          /\ error' = ErrorMessage("NotSupportedError")
          /\ UNCHANGED <<audioProcessorRef, volumeLoop>>
  /\ lastReject' = Null
  /\ micOp' = "acquireResolve"
  /\ UNCHANGED <<isRecording, rendered, mediaRecorderRef, audioChunksRef,
                 recordingStartTimeRef, maxDurationTimerRef, recorder, aiStatus,
                 now>>
  /\ AcquireFrame

\* getUserMedia rejects with an error called name: the catch block.
AcquireReject(name) ==
  /\ pendingAcquire > 0
  /\ pendingAcquire' = pendingAcquire - 1
  /\ error' = ErrorMessage(name)
  /\ isMicrophoneEnabled' = FALSE
  /\ lastReject' = name
  /\ micOp' = "acquireReject"
  /\ UNCHANGED <<stream, isRecording, rendered, audioProcessorRef,
                 mediaRecorderRef, audioChunksRef, recordingStartTimeRef,
                 maxDurationTimerRef, recorder, aiStatus, now, volumeLoop>>
  /\ AcquireFrame

\* The microphone button while enabled: stopListening of the last render.
StopListening ==
  /\ rendered.enabled
  /\ ButtonsEnabled
  /\ stopRecording(rendered.isRecording)
  /\ stopSilence(rendered.isRecording)
  /\ volumeLoop' = FALSE
  /\ audioProcessorRef' = FALSE
  /\ stream' = IF rendered.stream THEN FALSE ELSE stream
  /\ isMicrophoneEnabled' = FALSE
  /\ micOp' = "other"
  /\ UNCHANGED <<rendered, mediaRecorderRef, audioChunksRef,
                 recordingStartTimeRef, aiStatus, now, error, pendingAcquire,
                 lastReject>>
  /\ UNCHANGED <<presenceVars, presenceState, volumeVars, heartbeatVars,
                 autoStop, memoryVars>>

\* React commits a render: the callbacks now close over the current state,
\* and the effect on [status, isRecording, stopRecording] runs.
Render ==
  /\ rendered # CurrentRender
  /\ rendered' = CurrentRender
  /\ IF aiStatus = "processing" /\ isRecording
     THEN stopRecording(isRecording) /\ stopSilence(isRecording)
     ELSE UNCHANGED <<maxDurationTimerRef, recorder, isRecording,
                      silenceTimerRef, loops>>
  /\ micOp' = "render"
  /\ UNCHANGED <<stream, audioProcessorRef, mediaRecorderRef, audioChunksRef,
                 recordingStartTimeRef, aiStatus, now>>
  /\ RecordingFrame

\* The max-duration timeout fires.
MaxDurationFire ==
  /\ maxDurationTimerRef.st = "pending"
  /\ now >= maxDurationTimerRef.delay
  /\ maxDurationTimerRef' = FiredTimer
  /\ IF mediaRecorderRef # NoRecorder
        /\ recorder[mediaRecorderRef].state = "recording"
     THEN /\ recorder' = StopRecorder(recorder, mediaRecorderRef)
          /\ isRecording' = FALSE
     ELSE UNCHANGED <<recorder, isRecording>>
  /\ micOp' = "maxDuration"
  /\ UNCHANGED <<stream, rendered, audioProcessorRef, mediaRecorderRef,
                 audioChunksRef, recordingStartTimeRef, aiStatus, now>>
  /\ MicFrame

\* A recorder ends without stop() being called (its tracks ended, or a
\* recording error).
RecorderEnds(r) ==
  /\ recorder[r].state = "recording"
  /\ recorder' = StopRecorder(recorder, r)
  /\ micOp' = "other"
  /\ UNCHANGED <<stream, isRecording, rendered, audioProcessorRef,
                 mediaRecorderRef, audioChunksRef, recordingStartTimeRef,
                 maxDurationTimerRef, aiStatus, now>>
  /\ MicFrame

\* mediaRecorder.ondataavailable of recorder r.
DataAvailable(r, size) ==
  /\ recorder[r].pending = "data"
  /\ recorder' = [recorder EXCEPT ![r].pending = "stop"]
  /\ audioChunksRef' =
       IF size > 0
       THEN Append(audioChunksRef, [size |-> size, by |-> r])
       ELSE audioChunksRef
  /\ micOp' = "other"
  /\ UNCHANGED <<stream, isRecording, rendered, audioProcessorRef,
                 mediaRecorderRef, recordingStartTimeRef, maxDurationTimerRef,
                 aiStatus, now>>
  /\ MicFrame

\* Variant: onstop without the duration check.
TooShort_Never(duration) == FALSE

\* if (duration < VAD_CONFIG.minRecordingDuration) return;
TooShort(duration) == duration < minRecordingDuration

\* History kept per recorder: startedAt is the time of its own start(),
\* elapsed the time from there to the handling of its stop event, measured
\* the duration the handler computed, outcome what the handler did, clip
\* the chunks of the blob it handed to sendAudio.
\* What mediaRecorder.onstop does with the recording.  Its closure holds the
\* session startRecording's guard found to have a token.
StopOutcome ==
  IF TooShort(now - recordingStartTimeRef) THEN "tooShort"
  ELSE IF Len(audioChunksRef) = 0 THEN "noData"
  ELSE IF SumBytes(audioChunksRef) < MinBlobBytes THEN "tooSmall"
  ELSE "sent"

\* mediaRecorder.onstop of recorder r, up to the call of sendAudio, which
\* sets status 'processing' before its first await.
OnStop(r) ==
  /\ recorder[r].pending = "stop"
  /\ recorder' = [recorder EXCEPT ![r].pending = "none",
                                  ![r].startedAt = 0,
                                  ![r].elapsed = now - recorder[r].startedAt,
                                  ![r].measured = now - recordingStartTimeRef,
                                  ![r].outcome = StopOutcome,
                                  ![r].clip = IF StopOutcome = "sent"
                                              THEN audioChunksRef ELSE <<>>]
  /\ aiStatus' = IF StopOutcome = "sent" THEN "processing" ELSE aiStatus
  /\ micOp' = "other"
  /\ UNCHANGED <<stream, isRecording, rendered, audioProcessorRef,
                 mediaRecorderRef, audioChunksRef, recordingStartTimeRef,
                 maxDurationTimerRef, now>>
  /\ MicFrame

\* useAIStore: the request made by sendAudio is over and the status is idle
\* again (responding, speaking and error are passed through in this step).
AIFinish ==
  /\ aiStatus = "processing"
  /\ aiStatus' = "idle"
  /\ micOp' = "other"
  /\ UNCHANGED <<stream, isRecording, rendered, audioProcessorRef,
                 mediaRecorderRef, audioChunksRef, recordingStartTimeRef,
                 maxDurationTimerRef, recorder, now>>
  /\ MicFrame

\* Date.now() advances by d: a short step or a long one.
Tick(d) ==
  /\ d = TickMs => (now % LongTickMs) + d <= MaxTicks * TickMs
  /\ d = LongTickMs => now + d <= MaxLongTicks * LongTickMs + MaxTicks * TickMs
  /\ now' = now + d
  /\ micOp' = "other"
  /\ UNCHANGED <<stream, isRecording, rendered, audioProcessorRef,
                 mediaRecorderRef, audioChunksRef, recordingStartTimeRef,
                 maxDurationTimerRef, recorder, aiStatus>>
  /\ MicFrame

\* ----------------------------------------------------------- AudioProcessor
\* Volumes are exact fractions: the record [num, exp] stands for
\* num / (ByteMax * 10^exp).  volumeSmoothingFactor 0.7 is 7/10 and its
\* complement 3/10; silenceThreshold 0.008 is 8/1000.
ByteMax == 255
SmoothingTenths == 7
ThresholdThousandths == 8

\* The byte values getByteFrequencyData may write into a bin.
BinLevels == {0, 35, 245, ByteMax}

RECURSIVE Pow10(_)
Pow10(n) == IF n = 0 THEN 1 ELSE 10 * Pow10(n - 1)

RECURSIVE SumSq(_)
\* The loop of getVolume without the division by 255: the sum of bin^2.
SumSq(f) == IF f = <<>> THEN 0 ELSE Head(f) * Head(f) + SumSq(Tail(f))

ISqrt(n) == CHOOSE r \in 0..ByteMax : r * r <= n /\ (r + 1) * (r + 1) > n

\* ByteMax * Math.sqrt(sum / dataArray.length).
Rms(f) == ISqrt(SumSq(f) \div Len(f))

\* The frames whose RMS is a fraction of the kind above, so that the
\* arithmetic below is exact.
ExactFrames ==
  {f \in [1..BinsPerFrame -> BinLevels] :
     Rms(f) * Rms(f) * Len(f) = SumSq(f)}

\* Variant: the two weights exchanged.
Smooth_Swapped(v, rms) ==
  [num |-> (10 - SmoothingTenths) * v.num
             + SmoothingTenths * rms * Pow10(v.exp),
   exp |-> v.exp + 1]

\* volumeSmoothingFactor * smoothedVolume + (1 - volumeSmoothingFactor) * rms
Smooth(v, rms) ==
  [num |-> SmoothingTenths * v.num
             + (10 - SmoothingTenths) * rms * Pow10(v.exp),
   exp |-> v.exp + 1]

\* volume < silenceThreshold
BelowThreshold(v) ==
  v.num * 1000 < ThresholdThousandths * ByteMax * Pow10(v.exp)

VolumeFrame ==
  UNCHANGED <<presenceVars, presenceState, micVars, acquireVars,
              heartbeatVars, silenceVars, memoryVars>>

\* AudioProcessor.getVolume() when the analyser delivers frame f; the value
\* returned is the new smoothedVolume.
GetVolume(f) ==
  /\ Len(frames) < MaxFrames
  /\ smoothedVolume' = Smooth(smoothedVolume, Rms(f))
  /\ frames' = Append(frames, f)
  /\ volOp' = [fn |-> "getVolume", silent |-> FALSE]
  /\ VolumeFrame

\* AudioProcessor.isSilent() when the analyser delivers frame f.
IsSilent(f) ==
  /\ Len(frames) < MaxFrames
  /\ smoothedVolume' = Smooth(smoothedVolume, Rms(f))
  /\ frames' = Append(frames, f)
  /\ volOp' = [fn |-> "isSilent", silent |-> BelowThreshold(smoothedVolume')]
  /\ VolumeFrame

InitVolume ==
  /\ smoothedVolume = [num |-> 0, exp |-> 0]
  /\ frames = <<>>
  /\ volOp = [fn |-> "new", silent |-> FALSE]

InitMic ==
  /\ stream = FALSE
  /\ isRecording = FALSE
  /\ rendered = [isRecording |-> FALSE, stream |-> FALSE, status |-> "idle",
                 session |-> FALSE, enabled |-> FALSE, error |-> Null]
  /\ audioProcessorRef = FALSE
  /\ mediaRecorderRef = NoRecorder
  /\ audioChunksRef = <<>>
  /\ recordingStartTimeRef = 0
  /\ maxDurationTimerRef = NoTimer
  /\ recorder = [r \in RecorderIds |-> UnusedRecorder]
  /\ aiStatus = "idle"
  /\ now = 0
  /\ micOp = "init"
  /\ isMicrophoneEnabled = FALSE
  /\ error = Null
  /\ pendingAcquire = 0
  /\ volumeLoop = FALSE
  /\ lastReject = Null

\* --------------------------------------------------------- specification
InitPresence ==
  /\ connectionState = "offline"
  /\ onlineUsers = <<>>
  /\ currentUserId = Null
  /\ channel = NoChannel
  /\ globalChannel = NoChannel
  /\ isConnecting = FALSE
  /\ reconnectAttempts = 0
  /\ reconnectTimer = NoTimer
  /\ heartbeatTimer = "none"
  /\ keepAliveTimer = "none"
  /\ leakedReconnect = 0
  /\ leakedIntervals = 0
  /\ stateMonitors = 0
  /\ delayedReconnects = 0
  /\ onlineTimeouts = 0
  /\ chan = [c \in ChannelIds |-> FreeChannel]
  /\ connectAwait = 0
  /\ trackAwait = {}
  /\ user = Null
  /\ onLine = TRUE
  /\ lastOp = "init"
  /\ terminal = FALSE
  /\ leakedOwners = {}
  /\ beatBy = NoChannel

\* Everything but the build's silence flag.
\* ------------------------------------------- POST /api/ai/process (route.ts)
\* getSessionMemory returns, and saveSessionTurn stores, the last 10 turns.
KeepTurns == 10

RequestIds == 1..MaxRequests
Roles == {"user", "assistant"}

\* A conversation turn: the request that produced it and its role.  Request
\* 0 stands for the requests handled before; n tells its turns apart.
Turn(q, role) == [req |-> q, role |-> role, n |-> 0]
OldTurn(i) ==
  [req |-> 0, role |-> IF i % 2 = 1 THEN "user" ELSE "assistant", n |-> i]

\* No row for the (user_id, session_id) pair.
NoRow == [exists |-> FALSE, turns |-> <<>>]
Row(turns) == [exists |-> TRUE, turns |-> turns]

\* The rows earlier requests can have left: 0 to 10 turns.
StoredRows == {Row([i \in 1..k |-> OldTurn(i)]) : k \in 0..KeepTurns}

\* Array.prototype.slice(-n)
SliceLast(seq, n) ==
  IF Len(seq) <= n THEN seq ELSE SubSeq(seq, Len(seq) - n + 1, Len(seq))

IdleRequest == [pc |-> "idle", history |-> <<>>, existing |-> FALSE]

\* const conversationHistory = await getSessionMemory(sessionId, userId):
\* one select; no row gives [].  The row is taken as not expired: every
\* save moves expires_at two hours ahead.
getSessionMemory(q) ==
  /\ requests[q].pc = "idle"
  /\ requests' = [requests EXCEPT
                    ![q].pc = "selectUser",
                    ![q].history = IF sessionRow.exists
                                   THEN SliceLast(sessionRow.turns, KeepTurns)
                                   ELSE <<>>]
  /\ UNCHANGED sessionRow

\* The existingTurns argument of the saveSessionTurn call the request is in:
\* conversationHistory for the user turn, and conversationHistory with the
\* user turn appended for the assistant turn.
ExistingTurns(q, role) ==
  IF role = "user" THEN requests[q].history
  ELSE Append(requests[q].history, Turn(q, "user"))

\* const recentTurns = [...existingTurns, turn].slice(-10)
RecentTurns(q, role) ==
  SliceLast(Append(ExistingTurns(q, role), Turn(q, role)), KeepTurns)

\* saveSessionTurn up to the answer of its select ... maybeSingle().
SaveSelect(q, role) ==
  /\ requests[q].pc = (IF role = "user" THEN "selectUser" ELSE "selectAssistant")
  /\ requests' = [requests EXCEPT
                    ![q].pc = IF role = "user" THEN "writeUser"
                              ELSE "writeAssistant",
                    ![q].existing = sessionRow.exists]
  /\ UNCHANGED sessionRow

\* The rest of saveSessionTurn: update when the select found a row, insert
\* otherwise.  An insert for a pair that has a row by now is refused by the
\* table's unique constraint; the error is logged and the call returns.
SaveWrite(q, role) ==
  /\ requests[q].pc = (IF role = "user" THEN "writeUser" ELSE "writeAssistant")
  /\ sessionRow' =
       IF requests[q].existing
       THEN IF sessionRow.exists THEN Row(RecentTurns(q, role)) ELSE sessionRow
       ELSE IF sessionRow.exists THEN sessionRow ELSE Row(RecentTurns(q, role))
  /\ requests' = [requests EXCEPT
                    ![q].pc = IF role = "user" THEN "selectAssistant"
                              ELSE "done"]

InitRoute ==
  /\ sessionRow = NoRow
  /\ requests = [q \in RequestIds |-> IdleRequest]

InitBase ==
  /\ InitPresence
  /\ presenceState = <<>>
  /\ InitMic
  /\ InitVolume
  /\ InitSilence

Init ==
  /\ InitBase
  /\ autoStop = ENABLE_AUTO_STOP
  /\ InitRoute

\* The server with the row earlier requests of the session left.
InitStored ==
  /\ InitBase
  /\ autoStop = ENABLE_AUTO_STOP
  /\ sessionRow \in {NoRow} \cup StoredRows
  /\ requests = [q \in RequestIds |-> IdleRequest]

\* The store with a signed-in user: connect / disconnect, the subscribe
\* callback and the retry timeouts.  At most MaxFailures failures in a row.
NextCore ==
  \/ SignIn
  \/ \E throws \in BOOLEAN :
       /\ throws => reconnectAttempts < MaxFailures
       /\ \/ ManualConnect(throws)
          \/ \E untrackOk \in BOOLEAN : ConnectResume(untrackOk, throws)
          \/ ReconnectTimerFire(throws)
          \/ LeakedReconnectFire(throws)
  \/ Disconnect
  \/ \E c \in ChannelIds : StatusSubscribed(c)
  \/ \E c \in ChannelIds, trackOk \in BOOLEAN : TrackResume(c, trackOk)
  \/ \E c \in ChannelIds, status \in ErrorStatuses, jitter \in JitterSamples :
       /\ reconnectAttempts < MaxFailures
       /\ StatusError(c, status, jitter)

Next == NextCore

Spec == Init /\ [][Next]_vars

\* The retry cycle run up to the attempt ceiling: failures without bound, the
\* retry timeout, and the state monitor with its delayed reconnect.
NextRetry ==
  \/ SignIn
  \/ ManualConnect(FALSE)
  \/ \E untrackOk \in BOOLEAN : ConnectResume(untrackOk, FALSE)
  \/ ReconnectTimerFire(FALSE)
  \/ LeakedReconnectFire(FALSE)
  \/ \E c \in ChannelIds : StatusSubscribed(c)
  \/ \E c \in ChannelIds, trackOk \in BOOLEAN : TrackResume(c, trackOk)
  \/ \E c \in ChannelIds, status \in ErrorStatuses : StatusError(c, status, 0)
  \/ \E c \in ChannelIds : Rejoin(c)
  \/ MonitorTick
  \/ DelayedReconnectFire(FALSE)

SpecRetry == Init /\ [][NextRetry]_vars

\* The store together with the browser events it listens to; connect() does
\* not throw and the retry delay carries no jitter.
NextEvents ==
  \/ SignIn
  \/ ManualConnect(FALSE)
  \/ \E untrackOk \in BOOLEAN : ConnectResume(untrackOk, FALSE)
  \/ ReconnectTimerFire(FALSE)
  \/ LeakedReconnectFire(FALSE)
  \/ Disconnect
  \/ \E c \in ChannelIds : StatusSubscribed(c)
  \/ \E c \in ChannelIds, trackOk \in BOOLEAN : TrackResume(c, trackOk)
  \/ \E c \in ChannelIds, status \in ErrorStatuses :
       /\ reconnectAttempts < MaxFailures
       /\ StatusError(c, status, 0)
  \/ Online
  \/ Offline
  \/ OnlineTimeoutFire(FALSE)
  \/ Focus(FALSE)
  \/ \E hidden \in BOOLEAN : VisibilityChange(hidden, FALSE)

SpecEvents == Init /\ [][NextEvents]_vars

\* The store together with the presence events of its channels.
NextDisconnect ==
  \/ NextCore
  \/ \E c \in ChannelIds : PresenceSync(c)

SpecDisconnect == Init /\ [][NextDisconnect]_vars

\* The sync handler as a function of the snapshot: the presence state grows
\* one entry at a time through every bounded snapshot, and the handler runs
\* on each.
NextSync == \E p \in Presences, newKey \in BOOLEAN : PresenceJoin(p, newKey)

SpecSync == Init /\ [][NextSync]_vars

\* The recording controller of a user who signs in.
NextMic ==
  \/ SignIn
  \/ StartListening
  \/ StopListening
  \/ ToggleRecording
  \/ Render
  \/ MaxDurationFire
  \/ \E r \in RecorderIds : RecorderEnds(r)
  \/ \E r \in RecorderIds, size \in ChunkSizes : DataAvailable(r, size)
  \/ \E r \in RecorderIds : OnStop(r)
  \/ AIFinish
  \/ \E d \in TickSteps : Tick(d)

SpecMic == Init /\ [][NextMic]_vars

\* The store of a user who signs in and out; the page effect's connect() and
\* disconnect() are steps of their own.
NextAuth ==
  \/ SignIn
  \/ SignOut
  \/ ManualConnect(FALSE)
  \/ \E untrackOk \in BOOLEAN : ConnectResume(untrackOk, FALSE)
  \/ ReconnectTimerFire(FALSE)
  \/ LeakedReconnectFire(FALSE)
  \/ Disconnect
  \/ \E c \in ChannelIds : StatusSubscribed(c)
  \/ \E c \in ChannelIds, trackOk \in BOOLEAN : TrackResume(c, trackOk)
  \/ \E c \in ChannelIds, status \in ErrorStatuses :
       /\ reconnectAttempts < MaxFailures
       /\ StatusError(c, status, 0)

SpecAuth == Init /\ [][NextAuth]_vars

\* The POST handlers of the requests of one (user, session) pair: each
\* await is a point where another request's steps can come in between.
RouteFrame ==
  UNCHANGED <<presenceVars, presenceState, micVars, acquireVars, volumeVars,
              heartbeatVars, silenceVars>>

NextRoute ==
  \E q \in RequestIds :
    \/ getSessionMemory(q) /\ RouteFrame
    \/ \E role \in Roles : SaveSelect(q, role) /\ RouteFrame
    \/ \E role \in Roles : SaveWrite(q, role) /\ RouteFrame

SpecRoute == InitStored /\ [][NextRoute]_vars

\* The connect attempt with its scheduling: connect() does not throw and the
\* retry delay carries no jitter.
NextLockout ==
  \/ SignIn
  \/ ManualConnect(FALSE)
  \/ \E untrackOk \in BOOLEAN : ConnectResume(untrackOk, FALSE)
  \/ ReconnectTimerFire(FALSE)
  \/ Disconnect
  \/ \E c \in ChannelIds : StatusSubscribed(c)
  \/ \E c \in ChannelIds, trackOk \in BOOLEAN : TrackResume(c, trackOk)
  \/ \E c \in ChannelIds, status \in ErrorStatuses :
       /\ reconnectAttempts < MaxFailures
       /\ StatusError(c, status, 0)

\* channel.subscribe(callback): the server answers a join, so the callback
\* of a joining channel is called with some status.
SubscribeReports ==
  \E c \in ChannelIds :
    /\ chan[c].state = "joining"
    /\ \/ StatusSubscribed(c)
       \/ \E status \in ErrorStatuses : StatusError(c, status, 0)

\* The promises connect() and the subscribe callback await settle, either way.
PromiseSettles ==
  \/ \E untrackOk \in BOOLEAN : ConnectResume(untrackOk, FALSE)
  \/ \E c \in ChannelIds, trackOk \in BOOLEAN : TrackResume(c, trackOk)

\* The callers of connect() and disconnect(), later errors of a joined channel
\* and the retry timeout carry no fairness: nothing obliges them to happen.
SpecLockout ==
  /\ Init
  /\ [][NextLockout]_vars
  /\ WF_vars(SubscribeReports)
  /\ WF_vars(PromiseSettles)

\* The store with its heartbeat and stateMonitor intervals; connect() does
\* not throw and the retry delay carries no jitter.  The reconnects a
\* monitor schedules and the retry timeouts whose handle was overwritten are
\* left pending.
NextHeartbeat ==
  \/ SignIn
  \/ ManualConnect(FALSE)
  \/ \E untrackOk \in BOOLEAN : ConnectResume(untrackOk, FALSE)
  \/ ReconnectTimerFire(FALSE)
  \/ Disconnect
  \/ \E c \in ChannelIds : StatusSubscribed(c)
  \/ \E c \in ChannelIds, trackOk \in BOOLEAN : TrackResume(c, trackOk)
  \/ \E c \in ChannelIds, status \in ErrorStatuses :
       /\ reconnectAttempts < MaxFailures
       /\ StatusError(c, status, 0)
  \/ HeartbeatTick
  \/ \E o \in ChannelIds : LeakedHeartbeatTick(o)
  \/ MonitorTick

SpecHeartbeat == Init /\ [][NextHeartbeat]_vars

\* page.tsx renders MicrophoneManager only while there is a user.
Mounted == user # Null

\* The recording controller of a user who signs in once and may sign out:
\* the component is unmounted then, while its recorders, their handlers and
\* the max-duration timeout live on.
NextMicAuth ==
  \/ SignIn /\ lastOp = "init"
  \/ SignOut
  \/ Mounted /\ StartListening
  \/ Mounted /\ StopListening
  \/ Mounted /\ ToggleRecording
  \/ Mounted /\ Render
  \/ MaxDurationFire
  \/ \E r \in RecorderIds : RecorderEnds(r)
  \/ \E r \in RecorderIds, size \in ChunkSizes : DataAvailable(r, size)
  \/ \E r \in RecorderIds : OnStop(r)
  \/ AIFinish
  \/ \E d \in TickSteps : Tick(d)

SpecMicAuth == Init /\ [][NextMicAuth]_vars

\* The recording controller with silence detection, for a build with
\* ENABLE_AUTO_STOP set and for one without; the clock moves in long steps.
NextSilence ==
  \/ SignIn
  \/ StartListening
  \/ StopListening
  \/ ToggleRecording
  \/ Render
  \/ \E l \in LoopIds, silent, last \in BOOLEAN : CheckSilence(l, silent, last)
  \/ SilenceTimerFire
  \/ MaxDurationFire
  \/ \E r \in RecorderIds : RecorderEnds(r)
  \/ \E r \in RecorderIds : DataAvailable(r, MinBlobBytes)
  \/ \E r \in RecorderIds : OnStop(r)
  \/ AIFinish
  \/ Tick(LongTickMs)

\* The state after construction in either build.
InitAnyBuild ==
  /\ InitBase
  /\ autoStop \in BOOLEAN
  /\ InitRoute

SpecSilence == InitAnyBuild /\ [][NextSilence]_vars

\* Enabling and disabling the microphone, with getUserMedia as a step of
\* its own that resolves or rejects.
NextAcquire ==
  \/ SignIn
  \/ StartListeningBegin
  \/ \E ctorOk \in BOOLEAN : AcquireResolve(ctorOk)
  \/ \E name \in ErrorNames : AcquireReject(name)
  \/ StopListening
  \/ ToggleRecording
  \/ Render

SpecAcquire == Init /\ [][NextAcquire]_vars

\* One AudioProcessor and the frames its analyser delivers.
NextVolume ==
  \E f \in ExactFrames : GetVolume(f) \/ IsSilent(f)

SpecVolume == Init /\ [][NextVolume]_vars


\* ================================================================ claims
\* The steps in which a timer callback of the store called connect(), and
\* those in which the call found isConnecting set.
TimerConnectOps ==
  {"reconnectTimer", "reconnectTimerBusy", "delayedReconnect",
   "delayedReconnectBusy"}
BusyConnectOps ==
  {"connectBusy", "reconnectTimerBusy", "delayedReconnectBusy",
   "onlineTimeoutBusy"}

\* C1: in every reachable state at most one channel is live (created and not
\* yet removed), and that channel is the one globalChannel refers to.
C1_OneLiveChannel == LiveChannels \subseteq {globalChannel}

\* connect() invocations in progress: suspended on untrack(), or waiting for
\* the first subscribe status of the channel they created.
ConnectsInProgress ==
  connectAwait + Cardinality({c \in ChannelIds : chan[c].awaiting})

\* C2: at any time at most one connect() invocation is in progress.
C2_ConnectSerialized == ConnectsInProgress <= 1

\* C3: a connect() call made while isConnecting is true creates no channel
\* and leaves connectionState, globalChannel, reconnectAttempts and the
\* timers unchanged (a timer that made the call has itself fired, nothing
\* else).
C3_ConnectWhileConnectingIsNoOp ==
  [][ lastOp' \in BusyConnectOps =>
        /\ UNCHANGED <<globalChannel, chan, isConnecting, reconnectAttempts,
                       heartbeatTimer, keepAliveTimer, leakedIntervals,
                       stateMonitors, connectAwait, trackAwait, onlineUsers,
                       currentUserId, channel>>
        /\ lastOp' = "connectBusy" =>
             UNCHANGED <<connectionState, reconnectTimer, leakedReconnect,
                         delayedReconnects, onlineTimeouts>>
        /\ lastOp' = "reconnectTimerBusy" =>
             /\ UNCHANGED connectionState
             /\ \/ reconnectTimer' = FiredTimer /\ UNCHANGED leakedReconnect
                \/ /\ UNCHANGED reconnectTimer
                   /\ leakedReconnect' = leakedReconnect - 1 ]_vars

\* C3 witness: connect() was just called while a connect was in progress,
\* and the channel of that connect is still the only one.
C3_Witness ==
  /\ lastOp = "connectBusy"
  /\ isConnecting
  /\ globalChannel # NoChannel
  /\ Cardinality(LiveChannels) = 1

\* C4: once disconnect() has run and no browser event or caller-initiated
\* connect() has followed, no timer callback calls connect(), no status
\* callback calls track(), and connectionState stays offline.
C4_DisconnectIsTerminal ==
  terminal =>
    /\ connectionState = "offline"
    /\ lastOp \notin TimerConnectOps
    /\ lastOp # "subscribed"


\* min(1000 * 2^k, 30000): the delay the claim gives for attempt counter k.
ClaimedBackoff(k) == BackoffBase(k)

\* Retry timeouts that are scheduled and have not fired.
PendingRetries ==
  leakedReconnect + (IF reconnectTimer.st = "pending" THEN 1 ELSE 0)

\* C5: when the subscribe callback reports CHANNEL_ERROR, TIMED_OUT or CLOSED
\* with the network online and the attempt counter at k below the ceiling,
\* connectionState becomes offline, the counter becomes k + 1 and exactly one
\* retry is scheduled, with delay min(1000 * 2^k, 30000) + jitter, jitter in
\* [0, 1000).
C5_RetryDelay ==
  [][ (lastOp' = "statusError" /\ onLine
       /\ reconnectAttempts < MAX_RECONNECT_ATTEMPTS) =>
        /\ connectionState' = "offline"
        /\ reconnectAttempts' = reconnectAttempts + 1
        /\ PendingRetries' = PendingRetries + 1
        /\ reconnectTimer'.st = "pending"
        /\ reconnectTimer'.delay >= ClaimedBackoff(reconnectAttempts)
        /\ reconnectTimer'.delay < ClaimedBackoff(reconnectAttempts) + JitterMs
    ]_vars

\* C6: reconnectAttempts never exceeds MAX_RECONNECT_ATTEMPTS, and once it
\* has reached the ceiling neither the retry timeout nor the state monitor's
\* delayed reconnect starts a connect attempt.
C6_AttemptCeiling ==
  [][ /\ reconnectAttempts' <= MAX_RECONNECT_ATTEMPTS
      /\ ~ /\ reconnectAttempts = MAX_RECONNECT_ATTEMPTS
           /\ lastOp' \in {"reconnectTimer", "delayedReconnect"}
           /\ connectionState' = "reconnecting"
    ]_vars

\* The presences of a snapshot in snapshot order.
RECURSIVE Flatten(_)
Flatten(snap) ==
  IF snap = <<>> THEN <<>> ELSE Head(snap).presences \o Flatten(Tail(snap))

FirstOccurrence(flat, uid) ==
  CHOOSE j \in DOMAIN flat :
    /\ flat[j].userId = uid
    /\ \A k \in 1..(j - 1) : flat[k].userId # uid

\* C7: no state has two onlineUsers entries with the same userId, and after
\* a presence sync onlineUsers holds exactly one entry per distinct userId
\* of the snapshot, built from the first occurrence of that userId in
\* snapshot order; entries without a userId are omitted.
C7_SyncDeduplicates ==
  /\ \A i, j \in DOMAIN onlineUsers :
       i # j => onlineUsers[i].userId # onlineUsers[j].userId
  /\ lastOp = "sync" =>
       LET flat == Flatten(presenceState)
       IN /\ {onlineUsers[i].userId : i \in DOMAIN onlineUsers}
               = {flat[j].userId : j \in DOMAIN flat} \ {""}
          /\ \A i \in DOMAIN onlineUsers :
               LET p == flat[FirstOccurrence(flat, onlineUsers[i].userId)]
               IN /\ onlineUsers[i].joinedAt = p.joinedAt
                  /\ onlineUsers[i].lastSeen \in {p.lastSeen, p.joinedAt}

\* C7 witness: a sync of a two-key snapshot in which one user is tracked
\* under both keys with different entries and one entry has no userId.
C7_Witness ==
  /\ lastOp = "sync"
  /\ Len(presenceState) = 2
  /\ LET flat == Flatten(presenceState)
     IN /\ \E j \in DOMAIN flat : flat[j].userId = ""
        /\ \E a \in DOMAIN presenceState[1].presences,
              b \in DOMAIN presenceState[2].presences :
             /\ presenceState[1].presences[a].userId = "u1"
             /\ presenceState[2].presences[b].userId = "u1"
             /\ presenceState[1].presences[a].joinedAt
                  # presenceState[2].presences[b].joinedAt
        /\ Len(onlineUsers) < Len(flat) - 1
  /\ Len(onlineUsers) >= 1

\* C8: disconnect() from any state leaves connectionState offline,
\* onlineUsers empty, currentUserId, channel and globalChannel null and
\* isConnecting false; a second disconnect() right after changes nothing;
\* and a presence sync of a removed channel after disconnect() leaves
\* onlineUsers empty.
C8_DisconnectResets ==
  [][ /\ lastOp' = "disconnect" =>
           /\ connectionState' = "offline"
           /\ onlineUsers' = <<>>
           /\ currentUserId' = Null
           /\ channel' = NoChannel
           /\ globalChannel' = NoChannel
           /\ ~isConnecting'
      /\ (lastOp = "disconnect" /\ lastOp' = "disconnect") =>
           UNCHANGED vars
      /\ (terminal /\ lastOp' = "syncRemoved") => onlineUsers' = <<>>
    ]_vars

\* C9: at most one MediaRecorder is in the recording state, and a start
\* request handled while a recorder is recording leaves the recorders, the
\* chunk buffer, the start timestamp and the max-duration timer as they are.
C9_SingleRecorder ==
  [][ /\ Cardinality(Recording') <= 1
      /\ (micOp' = "startRecording" /\ Recording # {}) =>
           UNCHANGED <<recorder, mediaRecorderRef, audioChunksRef,
                       recordingStartTimeRef, maxDurationTimerRef>>
    ]_vars

\* C10: a recorder whose stop event is handled less than 500 ms after its
\* own start is never handed to sendAudio.
C10_ShortRecordingNeverSent ==
  \A r \in RecorderIds :
    recorder[r].outcome = "sent" => recorder[r].elapsed >= minRecordingDuration

\* C10 witness: a recorder was finalized less than 500 ms after its own
\* start, after another recording had been started (the handler measured
\* from the later start), with enough audio in the buffer to pass the other
\* checks, and it was dropped as too short.
C10_Witness ==
  \E r \in RecorderIds :
    /\ recorder[r].outcome = "tooShort"
    /\ recorder[r].elapsed < minRecordingDuration
    /\ recorder[r].measured < recorder[r].elapsed
    /\ SumBytes(audioChunksRef) >= MinBlobBytes

\* C11: a recorder is handed to sendAudio only with a clip that has at least
\* one chunk and at least 1000 bytes, and the clip holds only chunks that
\* this recorder produced.
C11_ClipValidated ==
  \A r \in RecorderIds :
    recorder[r].outcome = "sent" =>
      /\ Len(recorder[r].clip) > 0
      /\ SumBytes(recorder[r].clip) >= MinBlobBytes
      /\ \A i \in DOMAIN recorder[r].clip : recorder[r].clip[i].by = r

\* C12: every recorder in the recording state has the max-duration timeout
\* pending with a deadline at most 60 s after the recorder's own start, and
\* when the timeout fires no recorder is left recording and, if one was,
\* isRecording is false.
C12_MaxDurationCutoff ==
  [][ /\ \A r \in Recording' :
           /\ maxDurationTimerRef'.st = "pending"
           /\ maxDurationTimerRef'.delay
                <= recorder'[r].startedAt + maxRecordingDuration
      /\ micOp' = "maxDuration" =>
           /\ Recording' = {}
           /\ Recording # {} => ~isRecording'
    ]_vars

C14_EventConnectOnlyWhenNotConnected ==
  [][ /\ lastOp' \in {"onlineTimeout", "onlineTimeoutBusy"} =>
           connectionState # "connected"
      /\ (lastOp' = "focus" /\ connectionState = "connected") =>
           UNCHANGED ConnectTouched ]_vars

\* C15: the 'offline' event leaves connectionState offline, and afterwards
\* connectionState becomes connected only through a channel created after
\* that event, never through the subscribe outcome of a channel that was
\* already there.
C15_OfflineSticks ==
  [][ /\ lastOp' = "offline" => connectionState' = "offline"
      /\ (connectionState # "connected" /\ connectionState' = "connected") =>
           (channel' # NoChannel /\ ~chan[channel'].old) ]_vars

\* What a visibilitychange handler of the store could touch: the state, the
\* timers, the channels and the pending connect() calls.
VisibilityTouched ==
  <<ConnectTouched, onlineUsers, currentUserId, channel, leakedIntervals,
    stateMonitors, delayedReconnects, onlineTimeouts, trackAwait>>

AllowedTransitions ==
  {<<"offline", "reconnecting">>, <<"reconnecting", "connected">>,
   <<"reconnecting", "offline">>, <<"connected", "offline">>}

\* C20: connectionState changes only along offline -> reconnecting,
\* reconnecting -> connected, reconnecting -> offline and connected ->
\* offline, and connected is entered only by the subscribe success of the
\* channel that is the current one.
C20_StateMachine ==
  [][ connectionState' # connectionState =>
        /\ <<connectionState, connectionState'>> \in AllowedTransitions
        /\ connectionState' = "connected" =>
             (lastOp' = "trackResume" /\ channel' = globalChannel) ]_vars

\* C17: when getUserMedia rejects, the error state shows the message of the
\* error's name ('Microphone access denied.' for NotAllowedError, 'No
\* microphone found.' for NotFoundError, 'Microphone is in use.' for
\* NotReadableError, 'Failed to access microphone' otherwise),
\* isMicrophoneEnabled is false, no stream, audio processor or volume loop is
\* created, and no further getUserMedia call is made.
C17_AcquisitionRejected ==
  [][ (micOp' = "acquireReject" /\ acquireVars' # acquireVars) =>
        /\ lastReject' = "NotAllowedError" => error' = "Microphone access denied."
        /\ lastReject' = "NotFoundError" => error' = "No microphone found."
        /\ lastReject' = "NotReadableError" => error' = "Microphone is in use."
        /\ lastReject' \notin {"NotAllowedError", "NotFoundError",
                                "NotReadableError"} =>
             error' = "Failed to access microphone"
        /\ ~isMicrophoneEnabled'
        /\ UNCHANGED <<stream, audioProcessorRef, volumeLoop>>
        /\ pendingAcquire' = pendingAcquire - 1 ]_vars

\* Permission was denied on a microphone that was off.
C17_Witness ==
  /\ micOp = "acquireReject"
  /\ lastReject = "NotAllowedError"
  /\ error = "Microphone access denied."
  /\ ~isMicrophoneEnabled
  /\ ~stream /\ ~audioProcessorRef /\ ~volumeLoop
  /\ pendingAcquire = 0

\* The r with r / ByteMax the RMS of the normalized bins of frame f.
ExactRms(f) == CHOOSE r \in 0..ByteMax : r * r * Len(f) = SumSq(f)

\* C19: the smoothed volume is 0 before the first frame; every call of
\* getVolume or isSilent makes it 0.7 * previous + 0.3 * RMS of the frame,
\* and the value lies in [0, 1].
C19_SmoothedVolume ==
  [][ /\ frames = <<>> => smoothedVolume.num = 0
      /\ frames' # frames =>
           /\ frames' = Append(frames, frames'[Len(frames')])
           /\ smoothedVolume'.exp = smoothedVolume.exp + 1
           /\ smoothedVolume'.num =
                7 * smoothedVolume.num
                  + 3 * ExactRms(frames'[Len(frames')]) * Pow10(smoothedVolume.exp)
           /\ smoothedVolume'.num >= 0
           /\ smoothedVolume'.num <= ByteMax * Pow10(smoothedVolume'.exp) ]_vars

\* isSilent was called after getVolume on frames of different loudness.
C19_Witness ==
  /\ Len(frames) = MaxFrames
  /\ volOp.fn = "isSilent"
  /\ frames[1] # frames[2]
  /\ smoothedVolume.num > 0

\* C18: a clip is handed to sendAudio only if the session has a token when
\* the stop handler delivers it; without a token the handler drops the clip
\* and leaves the AI store as it is.
C18_SendNeedsToken ==
  [][ \A r \in RecorderIds :
        (recorder[r].pending = "stop" /\ recorder'[r].pending = "none"
           /\ ~HasToken) =>
          /\ recorder'[r].outcome # "sent"
          /\ aiStatus' = aiStatus ]_vars

PlainConnectOps ==
  {"connect", "connectBusy", "reconnectTimer", "reconnectTimerBusy"}

\* C22: connect() without a signed-in user creates no channel, leaves
\* isConnecting, connectionState and the interval timers alone and schedules
\* no retry; a retry timeout that fires then is gone and nothing replaces it.
C22_ConnectWithoutUser ==
  [][ (user = Null /\ lastOp' \in PlainConnectOps) =>
        /\ UNCHANGED <<connectionState, isConnecting, reconnectAttempts,
                       heartbeatTimer, keepAliveTimer, globalChannel, chan,
                       connectAwait, channel, currentUserId, stateMonitors>>
        /\ PendingRetries' <= PendingRetries
        /\ lastOp' = "reconnectTimer" => PendingRetries' = PendingRetries - 1
        /\ lastOp' = "connect" => reconnectTimer' = reconnectTimer ]_vars

\* The last retry timeout fired after sign-out, with no connect() in
\* progress, and no retry is pending any more.
C22_Witness ==
  /\ user = Null
  /\ lastOp = "reconnectTimer"
  /\ ~isConnecting
  /\ reconnectTimer = FiredTimer
  /\ PendingRetries = 0

\* A step of the recording controller (the presence store is not involved).
MicStep == UNCHANGED presenceVars

SilenceOps == {"silentCheck", "voicedCheck", "silenceFire"}

\* C23: a recording is stopped by the silence timeout only if the timeout
\* was armed by a check that had counted 3 consecutive silent checks, for
\* the recorder it stops, and has not been cancelled since; a voiced check
\* of a running recording resets the checking loop's counter and leaves no
\* timeout armed; with auto-stop disabled no silence check runs and no
\* silence timeout exists.
C23_SilenceStop ==
  [][ MicStep =>
        /\ (micOp' = "silenceFire" /\ recorder' # recorder) =>
             /\ silenceTimerRef.st = "pending"
             /\ silenceTimerRef.run >= REQUIRED_SILENT_CHECKS
             /\ silenceTimerRef.rec = mediaRecorderRef
        /\ (micOp' = "voicedCheck" /\ mediaRecorderRef # NoRecorder
              /\ recorder[mediaRecorderRef].state = "recording"
              /\ audioProcessorRef) =>
             /\ silenceTimerRef'.st = "null"
             /\ \A l \in LoopIds :
                  loops'[l] # loops[l] => loops'[l].consec = 0
        /\ ~autoStop =>
             /\ micOp' \notin SilenceOps
             /\ silenceTimerRef'.st # "pending" ]_vars

\* The silence timeout has stopped the current recording.
C23_Witness ==
  /\ autoStop
  /\ micOp = "silenceFire"
  /\ silenceTimerRef.st = "stale"
  /\ silenceTimerRef.run >= REQUIRED_SILENT_CHECKS
  /\ silenceTimerRef.rec = mediaRecorderRef
  /\ mediaRecorderRef # NoRecorder
  /\ recorder[mediaRecorderRef].state = "inactive"
  /\ ~isRecording

\* The polling loops that are scheduled.
ActiveLoops == {l \in LoopIds : loops[l].active}

\* C29: with auto-stop enabled, in every recording the check that counts the
\* third consecutive silent check leaves the delay timeout armed, and a
\* running recording has exactly one polling loop.
C29_SilenceEveryRecording ==
  [][ (MicStep /\ autoStop) =>
        /\ (micOp' = "silentCheck"
              /\ mediaRecorderRef # NoRecorder
              /\ recorder[mediaRecorderRef].state = "recording"
              /\ audioProcessorRef
              /\ \E l \in LoopIds :
                   /\ loops[l].active
                   /\ Counted(loops[l].consec) = REQUIRED_SILENT_CHECKS
                   /\ loops' \in
                        {[loops EXCEPT ![l] =
                            [active |-> TRUE,
                             consec |-> REQUIRED_SILENT_CHECKS]],
                         [loops EXCEPT ![l] = IdleLoop]}) =>
             silenceTimerRef'.st = "pending"
        /\ Recording' # {} => Cardinality(ActiveLoops') <= 1 ]_vars

\* The intervals and reconnect timeouts that are scheduled, whether or not
\* a module variable still holds their handle.
HeartbeatsScheduled ==
  leakedIntervals + (IF heartbeatTimer = "active" THEN 1 ELSE 0)

KeepAlivesScheduled ==
  leakedIntervals + (IF keepAliveTimer = "active" THEN 1 ELSE 0)

ReconnectsScheduled ==
  leakedReconnect + (IF reconnectTimer.st = "pending" THEN 1 ELSE 0)

\* C24: in every reachable state at most one heartbeat interval, one
\* keep-alive interval, one state-monitor interval and one reconnect timeout
\* are scheduled.
C24_NoTimerLeak ==
  /\ HeartbeatsScheduled <= 1
  /\ KeepAlivesScheduled <= 1
  /\ stateMonitors <= 1
  /\ ReconnectsScheduled <= 1

\* C25: whenever connect() has set isConnecting, it is eventually reset to
\* false once the channel reports a subscribe status and the awaited promises
\* settle, also when channel.track() rejects in the SUBSCRIBED branch.
C25_NoLockout == isConnecting ~> ~isConnecting

\* C26: whenever connectionState is connected, globalChannel is non-null, the
\* store's channel field is that same channel, currentUserId is the user the
\* channel was keyed by, and isConnecting is false.
C26_ConnectedConsistent ==
  connectionState = "connected" =>
    /\ globalChannel # NoChannel
    /\ channel = globalChannel
    /\ currentUserId = UserId
    /\ ~isConnecting

\* No call of connect() is running, suspended or scheduled, and no subscribe
\* callback is suspended.
NoConnectAttempt ==
  /\ ~isConnecting
  /\ connectAwait = 0
  /\ trackAwait = {}
  /\ reconnectTimer.st # "pending"
  /\ leakedReconnect = 0
  /\ delayedReconnects = 0
  /\ onlineTimeouts = 0

\* C27: in every state with connectionState offline and no connect attempt
\* in progress, heartbeatTimer and keepAliveTimer are null.
C27_OfflineTimersCleared ==
  (connectionState = "offline" /\ NoConnectAttempt) =>
    /\ heartbeatTimer = "none"
    /\ keepAliveTimer = "none"

\* C28: the status is listening only while a recording is active: in every
\* state with no recorder recording, no recorder event outstanding and no
\* send in flight, the status is not listening.
C28_ListeningOnlyWhileRecording ==
  (/\ Recording = {}
   /\ \A r \in RecorderIds : recorder[r].pending = "none"
   /\ ~isRecording) =>
    aiStatus # "listening"

\* The requests have all returned.
AllDone == \A q \in RequestIds : requests[q].pc = "done"

TurnsOf(seq) == {seq[i] : i \in 1..Len(seq)}

\* C30: when the requests of one (user, session) interleave, no turn is
\* lost (after they have returned the stored list holds the user turn and
\* the assistant turn of each) and the stored list never exceeds 10 turns.
C30_NoTurnLost ==
  /\ Len(sessionRow.turns) <= KeepTurns
  /\ AllDone =>
       \A q \in RequestIds, role \in Roles :
         Turn(q, role) \in TurnsOf(sessionRow.turns)

====
